---- MODULE Spec2Model ----
(***************************************************************************)
(* gitbro: the Settings Store (src/src/config.py), the provider resolver   *)
(* (src/src/providers.py) and the message generator                        *)
(* (src/src/generate_message.py).                                          *)
(*                                                                         *)
(* Temperatures are floats in the source; here they are counted in tenths  *)
(* (0.7 is 7, 2.0 is 20).  Python's None is the string "None"; a dict is a *)
(* function whose DOMAIN is the set of its keys.                           *)
(***************************************************************************)
EXTENDS Integers, Sequences, FiniteSets, TLC

\* ---------------------------------------------------------------- bounds
MaxOps == 3
TempOver == 5

\* ------------------------------------------------------------- constants
None == "None"

DefaultTemperature == 7
MinTemperature == 0
MaxTemperature == 20
DefaultMaxTokens == 150
SecureMode == 384
UmaskMode == 420
NoMode == 0

valid_providers == {"openai", "gemini", "claude", "ollama"}

RemoteProviders == {"openai", "gemini", "claude"}

default_models ==
  [openai |-> "gpt-3.5-turbo", gemini |-> "gemini-pro",
   claude |-> "claude-3-haiku-20240307", ollama |-> "llama3.2"]

\* ---------------------------------------------------------------- inputs
UnknownIds == {"foo"}
Ids == valid_providers \cup UnknownIds
Secrets == {"", "sk-test"}
ModelNames == {"gpt-4"}
TempInputs ==
  {MinTemperature - TempOver, MinTemperature, DefaultTemperature,
   MaxTemperature - TempOver, MaxTemperature, MaxTemperature + TempOver}
Diffs == {"diff"}

\* ------------------------------------------------------- Python helpers
EmptyDict == [k \in {} |-> ""]

DictGet(d, k, default) == IF k \in DOMAIN d THEN d[k] ELSE default

DictSet(d, k, v) == [x \in (DOMAIN d) \cup {k} |-> IF x = k THEN v ELSE d[x]]

\* bool(v) of an Optional[str]
Truthy(v) == v # None /\ v # ""

\* min(a, b) and max(a, b) return the first argument unless the second wins
PyMin(a, b) == IF b < a THEN b ELSE a

PyMax(a, b) == IF b > a THEN b ELSE a

VARIABLES
  config,      \* Config._config of the running process
  file,        \* ~/.gitbrain/config.json: [kind, doc]
  fileMode,    \* permission bits of the file (NoMode while it is missing)
  writable,    \* whether open(config_file, 'w') succeeds
  proc,        \* "running", or "crashed" when the import raised
  generator,   \* the MessageGenerator instance
  provider,    \* the Provider the resolver returned last (NoProvider if none)
  constructed, \* number of Provider instances constructed
  requests,    \* backend requests sent, oldest first
  last,        \* the operation that ran last, its arguments and its outcome
  set_model_calls, \* history: id -> name of the last set_model(id, name) of this process
  loaded_models,   \* history: the ids that had a model in the record this process loaded
  steps,       \* operations run so far
  outcome,     \* the backend reply, the text and the error of the last generation call
  commits,     \* number of `git commit` runs of this process
  save,        \* a save running step by step: [pc, from, warning]
  observed,    \* what another process loaded last: [loaded, config, before, after]
  tui,         \* the interactive loop of run_tui: [pc, error_line]
  repo         \* the git repository clean-branches works on, and what was done to it

vars == <<config, file, fileMode, writable, proc, generator, provider,
          constructed, requests, last, set_model_calls, loaded_models, steps,
          outcome, commits, save, observed, tui, repo>>

\* ------------------------------------------------------------ config.py
DefaultConfig ==
  [provider |-> None,
   api_keys |-> EmptyDict,
   settings |-> [temperature |-> DefaultTemperature,
                 max_tokens |-> DefaultMaxTokens,
                 model |-> EmptyDict]]

\* json.dump: None is written as null, a str as a string, a number as a
\* number, a dict as an object with the same keys.
JsonNull == [type |-> "null", text |-> "", num |-> 0]

JsonString(s) == [type |-> "string", text |-> s, num |-> 0]

JsonNumber(n) == [type |-> "number", text |-> "", num |-> n]

JsonOptStr(v) == IF v = None THEN JsonNull ELSE JsonString(v)

json_dump_strings(d) == [k \in DOMAIN d |-> JsonOptStr(d[k])]

json_dump_settings(d) ==
  [k \in DOMAIN d |->
     IF k = "model" THEN json_dump_strings(d[k]) ELSE JsonNumber(d[k])]

\* the record is written with the keys it holds
json_dump(c) ==
  [k \in DOMAIN c |->
     IF k = "provider" THEN JsonOptStr(c[k])
     ELSE IF k = "api_keys" THEN json_dump_strings(c[k])
     ELSE json_dump_settings(c[k])]

\* json.load: null is read as None, a string as a str, a number as a number

\* mutant: null is read as the text of the token, not as None
PyOptStr_text_only(j) == j.text

PyOptStr(j) == IF j.type = "null" THEN None ELSE j.text

PyNumber(j) == j.num

\* an object is read as a dict with the keys the file holds, whatever they are
json_load_strings(obj) == [k \in DOMAIN obj |-> PyOptStr(obj[k])]

json_load_settings(obj) ==
  [k \in DOMAIN obj |->
     IF k = "model" THEN json_load_strings(obj[k]) ELSE PyNumber(obj[k])]

json_load(doc) ==
  [k \in DOMAIN doc |->
     IF k = "provider" THEN PyOptStr(doc[k])
     ELSE IF k = "api_keys" THEN json_load_strings(doc[k])
     ELSE json_load_settings(doc[k])]

NoDoc == json_dump(DefaultConfig)

MissingFile == [kind |-> "missing", doc |-> NoDoc]

\* Config._load_config: the record read, or the exception that escapes
load_config(f) ==
  IF f.kind = "missing" THEN [raised |-> None, config |-> DefaultConfig]
  ELSE IF f.kind = "json" THEN [raised |-> None, config |-> json_load(f.doc)]
  ELSE IF f.kind \in {"invalid_json", "truncated"}
  THEN [raised |-> None, config |-> DefaultConfig]
  ELSE [raised |-> "UnicodeDecodeError", config |-> DefaultConfig]

\* mutant: the credentials are left out of what is written
save_config_without_keys(c) ==
  IF writable
  THEN [file |-> [kind |-> "json",
                  doc |-> json_dump([c EXCEPT !.api_keys = EmptyDict])],
        mode |-> SecureMode, warning |-> FALSE]
  ELSE [file |-> file, mode |-> fileMode, warning |-> TRUE]

\* mutant: a failed write is swallowed without a warning
save_config_silent(c) ==
  IF writable
  THEN [file |-> [kind |-> "json", doc |-> json_dump(c)],
        mode |-> SecureMode, warning |-> FALSE]
  ELSE [file |-> file, mode |-> fileMode, warning |-> FALSE]

\* Config._save_config: the file after the call, and whether it warned
save_config(c) ==
  IF writable
  THEN [file |-> [kind |-> "json", doc |-> json_dump(c)],
        mode |-> SecureMode, warning |-> FALSE]
  ELSE [file |-> file, mode |-> fileMode, warning |-> TRUE]

config_get_provider(c) == c.provider

get_api_key(c, id) == DictGet(c.api_keys, id, None)


\* mutant: the built-in default wins over the stored model
get_model_default_first(c, id) ==
  DictGet(default_models, id, DictGet(c.settings.model, id, ""))

get_model(c, id) ==
  DictGet(c.settings.model, id, DictGet(default_models, id, ""))

get_temperature(c) == c.settings.temperature


\* mutant: the lower bound is forgotten
clamp_temperature_upper_only(temperature) == PyMin(MaxTemperature, temperature)

clamp_temperature(temperature) ==
  PyMax(MinTemperature, PyMin(MaxTemperature, temperature))


\* mutant: a stored key counts even when it is empty
is_configured_key_present(c, id) ==
  LET p == IF id = None THEN config_get_provider(c) ELSE id
  IN IF ~Truthy(p) THEN FALSE
     ELSE IF p = "ollama" THEN TRUE
     ELSE get_api_key(c, p) # None

\* mutant: ollama is treated like a remote provider
is_configured_no_local(c, id) ==
  LET p == IF id = None THEN config_get_provider(c) ELSE id
  IN IF ~Truthy(p) THEN FALSE
     ELSE Truthy(get_api_key(c, p))

is_configured(c, id) ==
  LET p == IF id = None THEN config_get_provider(c) ELSE id
  IN IF ~Truthy(p) THEN FALSE
     ELSE IF p = "ollama" THEN TRUE
     ELSE Truthy(get_api_key(c, p))

list_providers(c) == [p \in valid_providers |-> is_configured(c, p)]

\* --------------------------------------------------------- providers.py
DefaultSystemPrompt == "Your task is to write a Git commit message based on the provided code diff."

BaseProvider(class, api_key, model, temperature) ==
  [class |-> class, api_key |-> api_key, model |-> model,
   temperature |-> temperature, system_prompt_override |-> None]


\* mutant: the constructor passes model and api_key in the wrong order
OpenAIProvider_swapped(api_key, model, temperature) ==
  BaseProvider("OpenAIProvider", model, api_key, temperature)

OpenAIProvider(api_key, model, temperature) ==
  BaseProvider("OpenAIProvider", api_key, model, temperature)

GeminiProvider(api_key, model, temperature) ==
  BaseProvider("GeminiProvider", api_key, model, temperature)

ClaudeProvider(api_key, model, temperature) ==
  BaseProvider("ClaudeProvider", api_key, model, temperature)

OllamaProvider(model, temperature) ==
  BaseProvider("OllamaProvider", None, model, temperature)

NoProvider == BaseProvider("None", None, "", 0)

get_system_prompt(p) ==
  IF Truthy(p.system_prompt_override) THEN p.system_prompt_override
  ELSE DefaultSystemPrompt

NoProviderConfigured == "No provider configured. Please run with --setup first."
OpenAIKeyMissing == "OpenAI API key not configured. Please run with --setup."
GeminiKeyMissing == "Gemini API key not configured. Please run with --setup."
ClaudeKeyMissing == "Claude API key not configured. Please run with --setup."
UnknownProvider == "Unknown provider"

Raise(message) == [raised |-> message, provider |-> NoProvider]

Return(p) == [raised |-> None, provider |-> p]


\* mutant: with no name to resolve, the local provider is used
get_provider_fallback_local(c, provider_name) ==
  LET name == IF provider_name = None THEN config_get_provider(c) ELSE provider_name
      model == get_model(c, name)
      temperature == get_temperature(c)
  IN IF ~Truthy(name) THEN Return(OllamaProvider(model, temperature))
     ELSE IF name = "openai" THEN
       IF ~Truthy(get_api_key(c, "openai")) THEN Raise(OpenAIKeyMissing)
       ELSE Return(OpenAIProvider(get_api_key(c, "openai"), model, temperature))
     ELSE IF name = "gemini" THEN
       IF ~Truthy(get_api_key(c, "gemini")) THEN Raise(GeminiKeyMissing)
       ELSE Return(GeminiProvider(get_api_key(c, "gemini"), model, temperature))
     ELSE IF name = "claude" THEN
       IF ~Truthy(get_api_key(c, "claude")) THEN Raise(ClaudeKeyMissing)
       ELSE Return(ClaudeProvider(get_api_key(c, "claude"), model, temperature))
     ELSE IF name = "ollama" THEN Return(OllamaProvider(model, temperature))
     ELSE Raise(UnknownProvider)

\* mutant: the claude branch does not check the key
get_provider_claude_unchecked(c, provider_name) ==
  LET name == IF provider_name = None THEN config_get_provider(c) ELSE provider_name
      model == get_model(c, name)
      temperature == get_temperature(c)
  IN IF ~Truthy(name) THEN Raise(NoProviderConfigured)
     ELSE IF name = "openai" THEN
       IF ~Truthy(get_api_key(c, "openai")) THEN Raise(OpenAIKeyMissing)
       ELSE Return(OpenAIProvider(get_api_key(c, "openai"), model, temperature))
     ELSE IF name = "gemini" THEN
       IF ~Truthy(get_api_key(c, "gemini")) THEN Raise(GeminiKeyMissing)
       ELSE Return(GeminiProvider(get_api_key(c, "gemini"), model, temperature))
     ELSE IF name = "claude" THEN
       Return(ClaudeProvider(get_api_key(c, "claude"), model, temperature))
     ELSE IF name = "ollama" THEN Return(OllamaProvider(model, temperature))
     ELSE Raise(UnknownProvider)

\* providers.get_provider: the Provider returned, or the exception raised
get_provider(c, provider_name) ==
  LET name == IF provider_name = None THEN config_get_provider(c) ELSE provider_name
      model == get_model(c, name)
      temperature == get_temperature(c)
  IN IF ~Truthy(name) THEN Raise(NoProviderConfigured)
     ELSE IF name = "openai" THEN
       IF ~Truthy(get_api_key(c, "openai")) THEN Raise(OpenAIKeyMissing)
       ELSE Return(OpenAIProvider(get_api_key(c, "openai"), model, temperature))
     ELSE IF name = "gemini" THEN
       IF ~Truthy(get_api_key(c, "gemini")) THEN Raise(GeminiKeyMissing)
       ELSE Return(GeminiProvider(get_api_key(c, "gemini"), model, temperature))
     ELSE IF name = "claude" THEN
       IF ~Truthy(get_api_key(c, "claude")) THEN Raise(ClaudeKeyMissing)
       ELSE Return(ClaudeProvider(get_api_key(c, "claude"), model, temperature))
     ELSE IF name = "ollama" THEN Return(OllamaProvider(model, temperature))
     ELSE Raise(UnknownProvider)

\* the error each provider's generate_message raises when its backend call fails
ApiError(class) ==
  IF class = "OpenAIProvider" THEN "OpenAI API error"
  ELSE IF class = "GeminiProvider" THEN "Gemini API error"
  ELSE IF class = "ClaudeProvider" THEN "Claude API error"
  ELSE "Ollama error"

\* what a provider's generate_message sends to its backend
Request(p, diff) ==
  [backend |-> p.class, api_key |-> p.api_key, model |-> p.model,
   temperature |-> p.temperature, system |-> get_system_prompt(p),
   content |-> diff]

\* str.strip(): leading and trailing whitespace is removed
Whitespace == {" ", "\n", "\t"}

RECURSIVE lstrip(_)
lstrip(s) == IF s # <<>> /\ Head(s) \in Whitespace THEN lstrip(Tail(s)) ELSE s

RECURSIVE rstrip(_)
rstrip(s) ==
  IF s # <<>> /\ s[Len(s)] \in Whitespace THEN rstrip(SubSeq(s, 1, Len(s) - 1)) ELSE s

strip(s) == rstrip(lstrip(s))

\* what a backend can answer: no answer at all (transport), an HTTP error
\* status, a body that does not parse, a body without a choice or content
\* block, or a body that carries a text
Reply(kind, status, text) == [kind |-> kind, status |-> status, text |-> text]

NoReply == Reply("none", 0, <<>>)

Texts == {<<>>, <<" ">>, <<" ", "f", "i", "x", "\n">>}

ErrorStatuses == {500}

MainReplies ==
  {Reply("http", st, <<>>) : st \in ErrorStatuses}
  \cup {Reply("text", 200, <<"f", "i", "x">>)}

Replies ==
  {Reply("transport", 0, <<>>), Reply("malformed", 200, <<>>),
   Reply("no_content", 200, <<>>)}
  \cup {Reply("http", st, <<>>) : st \in ErrorStatuses}
  \cup {Reply("text", 200, t) : t \in Texts}

\* a generation call returns a text or raises Exception(f"{raised}: {cause}")
Returned(reply, text) ==
  [reply |-> reply, raised |-> None, cause |-> "", status |-> 0, text |-> text]

Failed(reply, raised, cause, status) ==
  [reply |-> reply, raised |-> raised, cause |-> cause, status |-> status,
   text |-> <<>>]

NoOutcome == Returned(NoReply, <<>>)

\* str(e) of the exception a client library (openai, google.generativeai,
\* langchain_ollama, requests) or the unpacking of its answer raises
LibraryError(reply) ==
  IF reply.kind = "transport" THEN [cause |-> "Connection error", status |-> 0]
  ELSE IF reply.kind = "http" THEN [cause |-> "Error code", status |-> reply.status]
  ELSE IF reply.kind = "malformed" THEN [cause |-> "Unexpected response", status |-> 0]
  ELSE [cause |-> "list index out of range", status |-> 0]

OpenAIProvider_generate_message(p, reply) ==
  IF reply.kind = "text" THEN Returned(reply, strip(reply.text))
  ELSE Failed(reply, ApiError(p.class), LibraryError(reply).cause,
              LibraryError(reply).status)

GeminiProvider_generate_message(p, reply) ==
  IF reply.kind = "text"
  THEN IF reply.text = <<>>
       THEN Failed(reply, ApiError(p.class), "No response generated", 0)
       ELSE Returned(reply, strip(reply.text))
  ELSE Failed(reply, ApiError(p.class), LibraryError(reply).cause,
              LibraryError(reply).status)

\* mutant: a non-200 answer is reported without its status code
ClaudeProvider_generate_message_no_status(p, reply) ==
  IF reply.kind = "transport"
  THEN Failed(reply, ApiError(p.class), LibraryError(reply).cause, 0)
  ELSE IF reply.status # 200
  THEN Failed(reply, ApiError(p.class), "No response generated", 0)
  ELSE IF reply.kind = "malformed"
  THEN Failed(reply, ApiError(p.class), LibraryError(reply).cause, 0)
  ELSE IF reply.kind = "no_content"
  THEN Failed(reply, ApiError(p.class), "No response generated", 0)
  ELSE Returned(reply, strip(reply.text))

ClaudeProvider_generate_message(p, reply) ==
  IF reply.kind = "transport"
  THEN Failed(reply, ApiError(p.class), LibraryError(reply).cause, 0)
  ELSE IF reply.status # 200
  THEN Failed(reply, ApiError(p.class), "HTTP", reply.status)
  ELSE IF reply.kind = "malformed"
  THEN Failed(reply, ApiError(p.class), LibraryError(reply).cause, 0)
  ELSE IF reply.kind = "no_content"
  THEN Failed(reply, ApiError(p.class), "No response generated", 0)
  ELSE Returned(reply, strip(reply.text))

OllamaProvider_generate_message(p, reply) ==
  IF reply.kind = "text" THEN Returned(reply, strip(reply.text))
  ELSE Failed(reply, ApiError(p.class), LibraryError(reply).cause,
              LibraryError(reply).status)

\* provider.generate_message(diff), by the class of the provider
provider_generate_message(p, reply) ==
  IF p.class = "OpenAIProvider" THEN OpenAIProvider_generate_message(p, reply)
  ELSE IF p.class = "GeminiProvider" THEN GeminiProvider_generate_message(p, reply)
  ELSE IF p.class = "ClaudeProvider" THEN ClaudeProvider_generate_message(p, reply)
  ELSE OllamaProvider_generate_message(p, reply)

\* -------------------------------------------------- generate_message.py
MessageGenerator(c) ==
  [base_temperature |-> get_temperature(c),
   current_temperature |-> get_temperature(c)]

\* ----------------------------------------------------------------- state
Op(op, id, val, t, raised, warning) ==
  [op |-> op, id |-> id, val |-> val, t |-> t, raised |-> raised,
   warning |-> warning]

\* run_tui has not been entered
NoTui == [pc |-> "off", error_line |-> FALSE]

\* a repository holding only the branch main, on which nothing was done yet
NoRepo ==
  [current |-> "main", branches |-> {"main"}, merged |-> {"main"},
   remote |-> {}, remote_merged |-> {},
   checkouts |-> 0, pulls |-> 0, deleted |-> {}, deleted_remote |-> {}]

NoSave == [pc |-> "idle", from |-> MissingFile, warning |-> FALSE]

NoObserved ==
  [loaded |-> FALSE, config |-> DefaultConfig, before |-> DefaultConfig,
   after |-> DefaultConfig]

Init ==
  /\ config = DefaultConfig
  /\ file = MissingFile
  /\ fileMode = NoMode
  /\ writable = TRUE
  /\ proc = "running"
  /\ generator = MessageGenerator(DefaultConfig)
  /\ provider = NoProvider
  /\ constructed = 0
  /\ requests = <<>>
  /\ last = Op("start", None, "", 0, None, FALSE)
  /\ set_model_calls = EmptyDict
  /\ loaded_models = {}
  /\ steps = 0
  /\ outcome = NoOutcome
  /\ commits = 0
  /\ save = NoSave
  /\ observed = NoObserved
  /\ tui = NoTui
  /\ repo = NoRepo

\* one whole operation; none runs while a step-by-step save is under way
Step ==
  /\ steps < MaxOps
  /\ steps' = steps + 1
  /\ save.pc = "idle"
  /\ UNCHANGED <<save, observed, tui, repo>>

Running == proc = "running"

\* a setter's tail: self._config = c, then self._save_config()
Store(c, op) ==
  LET s == save_config(c)
  IN /\ config' = c
     /\ file' = s.file
     /\ fileMode' = s.mode
     /\ last' = [op EXCEPT !.warning = s.warning]

\* a new process: config = Config(), then generator = MessageGenerator()
Start ==
  LET r == load_config(file)
  IN /\ Step
     /\ proc' = IF r.raised = None THEN "running" ELSE "crashed"
     /\ config' = IF r.raised = None THEN r.config ELSE config
     /\ generator' = IF r.raised = None THEN MessageGenerator(r.config) ELSE generator
     /\ provider' = NoProvider
     /\ constructed' = 0
     /\ requests' = <<>>
     /\ last' = Op("start", None, "", 0, r.raised, FALSE)
     /\ set_model_calls' = EmptyDict
     /\ loaded_models' = IF r.raised = None THEN DOMAIN r.config.settings.model ELSE {}
     /\ outcome' = NoOutcome
     /\ commits' = 0
     /\ UNCHANGED <<file, fileMode, writable>>


\* mutant: the identifier is stored without validation
set_provider_unchecked(p) ==
  /\ Step
  /\ Running
  /\ Store([config EXCEPT !.provider = p],
           Op("set_provider", p, "", 0, None, FALSE))
  /\ UNCHANGED <<outcome, commits, writable, proc, generator, provider, constructed, requests,
                 set_model_calls, loaded_models>>

set_provider(p) ==
  /\ Step
  /\ Running
  /\ IF p \notin valid_providers
     THEN /\ last' = Op("set_provider", p, "", 0, "ValueError", FALSE)
          /\ UNCHANGED <<config, file, fileMode>>
     ELSE Store([config EXCEPT !.provider = p],
                Op("set_provider", p, "", 0, None, FALSE))
  /\ UNCHANGED <<outcome, commits, writable, proc, generator, provider, constructed, requests,
                 set_model_calls, loaded_models>>

\* mutant: storing a credential also selects its provider
set_api_key_selects(id, api_key) ==
  /\ Step
  /\ Running
  /\ Store([config EXCEPT !.api_keys = DictSet(@, id, api_key), !.provider = id],
           Op("set_api_key", id, api_key, 0, None, FALSE))
  /\ UNCHANGED <<outcome, commits, writable, proc, generator, provider, constructed, requests,
                 set_model_calls, loaded_models>>

set_api_key(id, api_key) ==
  /\ Step
  /\ Running
  /\ Store([config EXCEPT !.api_keys = DictSet(@, id, api_key)],
           Op("set_api_key", id, api_key, 0, None, FALSE))
  /\ UNCHANGED <<outcome, commits, writable, proc, generator, provider, constructed, requests,
                 set_model_calls, loaded_models>>

set_model(id, model) ==
  /\ Step
  /\ Running
  /\ Store([config EXCEPT !.settings.model = DictSet(@, id, model)],
           Op("set_model", id, model, 0, None, FALSE))
  /\ set_model_calls' = DictSet(set_model_calls, id, model)
  /\ UNCHANGED <<outcome, commits, writable, proc, generator, provider, constructed, requests,
                 loaded_models>>

set_temperature(temperature) ==
  /\ Step
  /\ Running
  /\ Store([config EXCEPT !.settings.temperature = clamp_temperature(temperature)],
           Op("set_temperature", None, "", temperature, None, FALSE))
  /\ UNCHANGED <<outcome, commits, writable, proc, generator, provider, constructed, requests,
                 set_model_calls, loaded_models>>

\* a caller runs providers.get_provider(provider_name)
resolve(provider_name) ==
  LET r == get_provider(config, provider_name)
  IN /\ Step
     /\ Running
     /\ provider' = r.provider
     /\ constructed' = IF r.raised = None THEN constructed + 1 ELSE constructed
     /\ last' = Op("get_provider", provider_name, "", 0, r.raised, FALSE)
     /\ UNCHANGED <<outcome, commits, config, file, fileMode, writable, proc, generator,
                    requests, set_model_calls, loaded_models>>

\* mutant: a failed backend call is repeated once before the error is raised
generate_message_retry(diff, reply) ==
  LET r == get_provider(config, None)
      p == [r.provider EXCEPT !.temperature = generator.current_temperature]
      o == provider_generate_message(p, reply)
  IN /\ Step
     /\ Running
     /\ IF r.raised # None
        THEN /\ provider' = r.provider
             /\ last' = Op("generate_message", None, diff, 0, r.raised, FALSE)
             /\ outcome' = NoOutcome
             /\ UNCHANGED <<constructed, requests>>
        ELSE /\ provider' = p
             /\ constructed' = constructed + 1
             /\ requests' = IF o.raised # None
                            THEN requests \o <<Request(p, diff), Request(p, diff)>>
                            ELSE Append(requests, Request(p, diff))
             /\ outcome' = o
             /\ last' = Op("generate_message", None, diff, 0, o.raised, FALSE)
     /\ UNCHANGED <<config, file, fileMode, writable, proc, generator,
                    set_model_calls, loaded_models, commits>>

\* MessageGenerator.generate_message(diff); the backend answers or fails
generate_message(diff, reply) ==
  LET r == get_provider(config, None)
      p == [r.provider EXCEPT !.temperature = generator.current_temperature]
  IN /\ Step
     /\ Running
     /\ IF r.raised # None
        THEN /\ provider' = r.provider
             /\ last' = Op("generate_message", None, diff, 0, r.raised, FALSE)
             /\ outcome' = NoOutcome
             /\ UNCHANGED <<constructed, requests>>
        ELSE /\ provider' = p
             /\ constructed' = constructed + 1
             /\ requests' = Append(requests, Request(p, diff))
             /\ outcome' = provider_generate_message(p, reply)
             /\ last' = Op("generate_message", None, diff, 0,
                           provider_generate_message(p, reply).raised, FALSE)
     /\ UNCHANGED <<config, file, fileMode, writable, proc, generator,
                    set_model_calls, loaded_models, commits>>

\* ---------------------------------------------------------------- tui.py
PROMPTS ==
  [commit |-> "Write a concise Git commit message.",
   commit_conventional |-> "Write a Conventional Commits message.",
   branch |-> "Suggest a branch name.",
   explain |-> "Explain these code changes in plain English.",
   changelog |-> "Create a markdown changelog grouped by type.",
   release |-> "Create user-friendly release notes.",
   summary |-> "Summarize this commit history.",
   fix_commit |-> "Fix this commit message.",
   analyze_chunk |-> "Briefly analyze this code change."]

PromptKeys == {"commit", "explain", "fix_commit", "no_such_key"}

\* the methods a Provider instance has (BaseProvider and its subclasses)
ProviderMethods == {"generate_message", "_get_system_prompt"}

\* tui.ai(prompt_key, content): resolves, looks the prompt up and calls
\* provider.generate(content, prompt)
tui_ai(prompt_key, content) ==
  LET r == get_provider(config, None)
      prompt == DictGet(PROMPTS, prompt_key, "")
  IN /\ Step
     /\ Running
     /\ provider' = r.provider
     /\ constructed' = IF r.raised = None THEN constructed + 1 ELSE constructed
     /\ "generate" \notin ProviderMethods
     /\ last' = Op("ai", None, prompt_key, 0,
                   IF r.raised # None THEN r.raised ELSE "AttributeError", FALSE)
     /\ outcome' = NoOutcome
     /\ UNCHANGED <<config, file, fileMode, writable, proc, generator,
                    requests, set_model_calls, loaded_models, commits>>

\* ---------------------------------------------------------------- cli.py
ConventionalPrompt == "Generate a commit message following Conventional Commits format."

\* mutant: the message is committed whatever the answer
approved_always(approve) == TRUE

\* `git commit` runs with --auto, or after yes to click.confirm
approved(approve) == approve \in {"auto", "yes"}

\* `commit [--temperature t] [--conventional] [--auto]` on staged changes
\* diff; approve is "auto", or the answer "yes" or "no" to the confirmation
\* (kept in last.val)
cli_commit(diff, has_temperature, temperature, conventional, approve, reply) ==
  LET gen == MessageGenerator(config)
      c == IF has_temperature
           THEN [config EXCEPT !.settings.temperature = clamp_temperature(temperature)]
           ELSE config
      first == get_provider(c, None)
      \* provider._system_prompt_override = ... on the provider commit resolved;
      \* generator.generate_message never sees this instance
      overridden == IF conventional
                    THEN [first.provider EXCEPT !.system_prompt_override = ConventionalPrompt]
                    ELSE first.provider
      r == get_provider(c, None)
      p == [r.provider EXCEPT !.temperature = gen.current_temperature]
      o == provider_generate_message(p, reply)
      raised == IF r.raised # None THEN r.raised ELSE o.raised
      op == Op("commit", IF conventional THEN "conventional" ELSE None, approve,
               IF has_temperature THEN temperature ELSE 0, raised, FALSE)
  IN /\ Step
     /\ Running
     /\ proc' = "exited"
     /\ IF diff = ""
        THEN /\ last' = Op("commit", None, approve, 0, "SystemExit", FALSE)
             /\ outcome' = NoOutcome
             /\ UNCHANGED <<config, file, fileMode, provider, constructed,
                            requests, commits>>
        ELSE /\ IF has_temperature
                THEN Store(c, op)
                ELSE last' = op /\ UNCHANGED <<config, file, fileMode>>
             /\ IF first.raised # None
                THEN /\ provider' = NoProvider
                     /\ outcome' = NoOutcome
                     /\ UNCHANGED <<constructed, requests, commits>>
                ELSE /\ provider' = p
                     /\ constructed' = constructed + 2
                     /\ requests' = Append(requests, Request(p, diff))
                     /\ outcome' = o
                     /\ commits' = IF o.raised = None /\ approved(approve)
                                   THEN commits + 1 ELSE commits
     /\ UNCHANGED <<writable, generator, set_model_calls, loaded_models>>

\* the environment: the file is removed, damaged, or made (un)writable
EnvRemoveFile ==
  /\ Step
  /\ file.kind # "missing"
  /\ file' = MissingFile
  /\ fileMode' = NoMode
  /\ last' = Op("env", None, "", 0, None, FALSE)
  /\ UNCHANGED <<outcome, commits, config, writable, proc, generator, provider, constructed,
                 requests, set_model_calls, loaded_models>>

EnvCorruptFile(kind) ==
  /\ Step
  /\ file.kind # kind
  /\ file' = [kind |-> kind, doc |-> NoDoc]
  /\ fileMode' = IF file.kind = "missing" THEN UmaskMode ELSE fileMode
  /\ last' = Op("env", None, "", 0, None, FALSE)
  /\ UNCHANGED <<outcome, commits, config, writable, proc, generator, provider, constructed,
                 requests, set_model_calls, loaded_models>>

EnvSetWritable ==
  /\ Step
  /\ writable' = ~writable
  /\ last' = Op("env", None, "", 0, None, FALSE)
  /\ UNCHANGED <<outcome, commits, config, file, fileMode, proc, generator, provider,
                 constructed, requests, set_model_calls, loaded_models>>

Next ==
  \/ Start
  \/ \E p \in Ids : set_provider(p)
  \/ \E id \in Ids, k \in Secrets : set_api_key(id, k)
  \/ \E id \in Ids, m \in ModelNames : set_model(id, m)
  \/ \E t \in TempInputs : set_temperature(t)
  \/ \E n \in Ids \cup {None} : resolve(n)
  \/ \E d \in Diffs, reply \in MainReplies : generate_message(d, reply)
  \/ EnvRemoveFile
  \/ \E kind \in {"invalid_json", "invalid_utf8"} : EnvCorruptFile(kind)
  \/ EnvSetWritable

Spec == Init /\ [][Next]_vars

\* ------------------------------------------- _save_config, step by step
\* a setter assigns self._config = c and enters _save_config
call_setter(c, op) ==
  /\ Running
  /\ save.pc = "idle"
  /\ steps < MaxOps
  /\ steps' = steps + 1
  /\ config' = c
  /\ last' = op
  /\ save' = [pc |-> "open", from |-> file, warning |-> FALSE]
  /\ UNCHANGED <<file, fileMode, writable, proc, generator, provider,
                 constructed, requests, set_model_calls, loaded_models,
                 outcome, commits, observed, tui, repo>>

\* open(self.config_file, 'w'): the file is created or truncated, or IOError
save_open ==
  /\ save.pc = "open"
  /\ IF writable
     THEN /\ file' = [kind |-> "truncated", doc |-> NoDoc]
          /\ fileMode' = IF file.kind = "missing" THEN UmaskMode ELSE fileMode
          /\ save' = [save EXCEPT !.pc = "dump"]
          /\ UNCHANGED last
     ELSE /\ save' = [save EXCEPT !.pc = "idle", !.warning = TRUE]
          /\ last' = [last EXCEPT !.warning = TRUE]
          /\ UNCHANGED <<file, fileMode>>
  /\ UNCHANGED <<config, writable, proc, generator, provider, constructed,
                 requests, set_model_calls, loaded_models, steps, outcome,
                 commits, observed, tui, repo>>

\* json.dump(self._config, f, indent=2) and the end of the with block
save_dump ==
  /\ save.pc = "dump"
  /\ file' = [kind |-> "json", doc |-> json_dump(config)]
  /\ save' = [save EXCEPT !.pc = "chmod"]
  /\ UNCHANGED <<config, fileMode, writable, proc, generator, provider,
                 constructed, requests, last, set_model_calls, loaded_models,
                 steps, outcome, commits, observed, tui, repo>>

\* os.chmod(self.config_file, 0o600), which the system grants or refuses
save_chmod(granted) ==
  /\ save.pc = "chmod"
  /\ fileMode' = IF granted THEN SecureMode ELSE fileMode
  /\ save' = [save EXCEPT !.pc = "idle", !.warning = ~granted]
  /\ last' = [last EXCEPT !.warning = ~granted]
  /\ UNCHANGED <<config, file, writable, proc, generator, provider,
                 constructed, requests, set_model_calls, loaded_models, steps,
                 outcome, commits, observed, tui, repo>>

\* another process runs Config() while this one is saving
other_load ==
  /\ save.pc # "idle"
  /\ load_config(file).raised = None
  /\ observed' = [loaded |-> TRUE,
                  config |-> load_config(file).config,
                  before |-> load_config(save.from).config,
                  after |-> config]
  /\ UNCHANGED <<config, file, fileMode, writable, proc, generator, provider,
                 constructed, requests, last, set_model_calls, loaded_models,
                 steps, outcome, commits, save, tui, repo>>

NextSteps ==
  \/ \E id \in RemoteProviders, k \in Secrets :
       call_setter([config EXCEPT !.api_keys = DictSet(@, id, k)],
                   Op("set_api_key", id, k, 0, None, FALSE))
  \/ \E t \in TempInputs :
       call_setter([config EXCEPT !.settings.temperature = clamp_temperature(t)],
                   Op("set_temperature", None, "", t, None, FALSE))
  \/ \E p \in valid_providers :
       call_setter([config EXCEPT !.provider = p],
                   Op("set_provider", p, "", 0, None, FALSE))
  \/ save_open
  \/ save_dump
  \/ \E granted \in BOOLEAN : save_chmod(granted)
  \/ other_load
  \/ EnvSetWritable
  \/ EnvRemoveFile
  \/ Start

SpecSteps == Init /\ [][NextSteps]_vars

\* ---------------------------------------------- interactive provider setup
\* the answers typed at the prompts; each is read with .strip(), the
\* "use existing key" answer also with .lower()
UseExistingAnswers == {"y", "Y", "n"}

lower(answer) == IF answer = "Y" THEN "y" ELSE answer

SetupModels == {""} \cup ModelNames

\* Config.setup_provider: the record it leaves, whether a setter saved it,
\* the exception that escapes, and the value returned
SetupDone(c, saved, model) ==
  [config |-> c, saved |-> saved, raised |-> None, result |-> TRUE, model |-> model]

SetupRefused(c) ==
  [config |-> c, saved |-> FALSE, raised |-> None, result |-> FALSE, model |-> ""]

SetupRaised(c, saved, model) ==
  [config |-> c, saved |-> saved, raised |-> "ValueError", result |-> FALSE, model |-> model]

\* mutant: an empty API key is stored instead of refused
config_setup_provider_empty_key(c, p, use_existing, api_key, model) ==
  LET with_model(r) ==
        IF model # ""
        THEN [r EXCEPT !.settings.model = DictSet(@, p, model)]
        ELSE r
  IN IF p = "ollama"
     THEN SetupDone([with_model(c) EXCEPT !.provider = p], TRUE, model)
     ELSE IF Truthy(get_api_key(c, p)) /\ lower(use_existing) = "y"
     THEN IF p \in valid_providers
          THEN SetupDone([c EXCEPT !.provider = p], TRUE, "")
          ELSE SetupRaised(c, FALSE, "")
     ELSE LET keyed == with_model([c EXCEPT !.api_keys = DictSet(@, p, api_key)])
          IN IF p \in valid_providers
             THEN SetupDone([keyed EXCEPT !.provider = p], TRUE, model)
             ELSE SetupRaised(keyed, TRUE, model)

config_setup_provider(c, p, use_existing, api_key, model) ==
  LET with_model(r) ==
        IF model # ""
        THEN [r EXCEPT !.settings.model = DictSet(@, p, model)]
        ELSE r
  IN IF p = "ollama"
     THEN SetupDone([with_model(c) EXCEPT !.provider = p], TRUE, model)
     ELSE IF Truthy(get_api_key(c, p)) /\ lower(use_existing) = "y"
     THEN IF p \in valid_providers
          THEN SetupDone([c EXCEPT !.provider = p], TRUE, "")
          ELSE SetupRaised(c, FALSE, "")
     ELSE IF api_key = ""
     THEN SetupRefused(c)
     ELSE LET keyed == with_model([c EXCEPT !.api_keys = DictSet(@, p, api_key)])
          IN IF p \in valid_providers
             THEN SetupDone([keyed EXCEPT !.provider = p], TRUE, model)
             ELSE SetupRaised(keyed, TRUE, model)

\* main with --setup <id>: setup_provider(id) -> config.setup_provider(id);
\* the process ends with status 0 when it returned True, 1 when it returned
\* False (kept in last.t), or with the escaping exception
main_setup(p, use_existing, api_key, model) ==
  LET r == config_setup_provider(config, p, use_existing, api_key, model)
      op == Op("setup_provider", p, api_key, IF r.result THEN 0 ELSE 1, r.raised, FALSE)
  IN /\ Step
     /\ Running
     /\ IF r.saved
        THEN Store(r.config, op)
        ELSE /\ last' = op
             /\ UNCHANGED <<config, file, fileMode>>
     /\ set_model_calls' = IF r.model # ""
                           THEN DictSet(set_model_calls, p, r.model)
                           ELSE set_model_calls
     /\ proc' = "exited"
     /\ UNCHANGED <<outcome, commits, writable, generator, provider, constructed,
                    requests, loaded_models>>

NextSetup ==
  \/ Start
  \/ \E p \in Ids, use_existing \in UseExistingAnswers, k \in Secrets, m \in SetupModels :
       main_setup(p, use_existing, k, m)
  \/ \E id \in Ids, k \in Secrets : set_api_key(id, k)
  \/ EnvSetWritable
  \/ EnvRemoveFile

SpecSetup == Init /\ [][NextSetup]_vars

\* ------------------------------------------------ a hand-edited settings file
\* the temperatures a well-formed file may hold
FileTemperatures == TempInputs

\* the user edits the temperature in the settings file (creating the file
\* from the default record when there is none)
EnvEditTemperature(t) ==
  LET doc == IF file.kind = "json" THEN file.doc ELSE NoDoc
  IN /\ Step
     /\ file' = [kind |-> "json",
                 doc |-> [doc EXCEPT !.settings.temperature = JsonNumber(t)]]
     /\ file' # file
     /\ fileMode' = IF file.kind = "missing" THEN UmaskMode ELSE fileMode
     /\ last' = Op("env", None, "", 0, None, FALSE)
     /\ UNCHANGED <<outcome, commits, config, writable, proc, generator, provider,
                    constructed, requests, set_model_calls, loaded_models>>

NextFile ==
  \/ Start
  \/ \E t \in FileTemperatures : EnvEditTemperature(t)
  \/ \E p \in Ids : set_provider(p)
  \/ \E id \in Ids, k \in Secrets : set_api_key(id, k)
  \/ \E id \in Ids, m \in ModelNames : set_model(id, m)
  \/ \E t \in TempInputs : set_temperature(t)

SpecFile == Init /\ [][NextFile]_vars

\* ---------------------------------------- a hand-edited selected provider
\* the user edits the "provider" entry of the settings file (creating the
\* file from the default record when there is none)
EnvEditProvider(p) ==
  LET doc == IF file.kind = "json" THEN file.doc ELSE NoDoc
  IN /\ Step
     /\ file' = [kind |-> "json", doc |-> [doc EXCEPT !.provider = JsonString(p)]]
     /\ file' # file
     /\ fileMode' = IF file.kind = "missing" THEN UmaskMode ELSE fileMode
     /\ last' = Op("env", None, "", 0, None, FALSE)
     /\ UNCHANGED <<outcome, commits, config, writable, proc, generator, provider,
                    constructed, requests, set_model_calls, loaded_models>>

NextEdited ==
  \/ Start
  \/ \E p \in Ids : EnvEditProvider(p)
  \/ \E p \in Ids : set_provider(p)
  \/ \E id \in RemoteProviders : set_api_key(id, "sk-test")
  \/ \E n \in Ids \cup {None} : resolve(n)

SpecEdited == Init /\ [][NextEdited]_vars

\* ------------------------------------- settings files of any JSON-object shape
\* well-formed files that lack entries of the record _save_config writes:
\* {}, {"provider": null}, a record without "settings", and a record whose
\* "settings" lacks "temperature" and "model"
EmptyObject == [k \in {} |-> JsonNull]

HandWrittenDocs ==
  {EmptyObject,
   [provider |-> JsonNull],
   [provider |-> JsonString("openai"), api_keys |-> [openai |-> JsonString("sk-test")]],
   [provider |-> JsonString("ollama"), api_keys |-> EmptyObject,
    settings |-> [max_tokens |-> JsonNumber(DefaultMaxTokens)]],
   [provider |-> JsonString("ollama"), settings |-> json_dump(DefaultConfig).settings]}

EnvWriteFile(doc) ==
  /\ Step
  /\ file' = [kind |-> "json", doc |-> doc]
  /\ file' # file
  /\ fileMode' = IF file.kind = "missing" THEN UmaskMode ELSE fileMode
  /\ last' = Op("env", None, "", 0, None, FALSE)
  /\ UNCHANGED <<outcome, commits, config, writable, proc, generator, provider,
                 constructed, requests, set_model_calls, loaded_models>>

\* config = Config() at the import of config.py
import_config ==
  LET r == load_config(file)
  IN /\ Step
     /\ proc' = IF r.raised = None THEN "running" ELSE "crashed"
     /\ config' = IF r.raised = None THEN r.config ELSE config
     /\ last' = Op("import config", None, "", 0, r.raised, FALSE)
     /\ UNCHANGED <<outcome, commits, file, fileMode, writable, generator, provider,
                    constructed, requests, set_model_calls, loaded_models>>

\* d[k] on a dict: KeyError when the key is absent
HasKey(d, k) == k \in DOMAIN d

Accessors ==
  {"config.get_provider", "config.get_api_key", "config.get_model",
   "config.get_temperature", "config.is_configured", "config.list_providers"}

\* the exception an accessor raises on the record c, None when it returns
accessor_raises(c, name, id) ==
  LET api_key_raises == IF HasKey(c, "api_keys") THEN None ELSE "KeyError"
      configured_raises(p) ==
        IF ~Truthy(p) \/ p = "ollama" THEN None ELSE api_key_raises
  IN IF name = "config.get_provider" THEN None
     ELSE IF name = "config.get_api_key" THEN api_key_raises
     ELSE IF name = "config.get_model"
     THEN IF HasKey(c, "settings") /\ HasKey(c.settings, "model")
          THEN None ELSE "KeyError"
     ELSE IF name = "config.get_temperature"
     THEN IF HasKey(c, "settings") /\ HasKey(c.settings, "temperature")
          THEN None ELSE "KeyError"
     ELSE IF name = "config.is_configured"
     THEN configured_raises(IF id = None THEN DictGet(c, "provider", None) ELSE id)
     ELSE api_key_raises

call_accessor(name, id) ==
  /\ Step
  /\ Running
  /\ last' = Op(name, id, "", 0, accessor_raises(config, name, id), FALSE)
  /\ UNCHANGED <<outcome, commits, config, file, fileMode, writable, proc, generator,
                 provider, constructed, requests, set_model_calls, loaded_models>>

NextShapes ==
  \/ import_config
  \/ \E doc \in HandWrittenDocs \cup {NoDoc} : EnvWriteFile(doc)
  \/ \E kind \in {"invalid_json", "invalid_utf8"} : EnvCorruptFile(kind)
  \/ EnvRemoveFile
  \/ \E name \in Accessors, id \in {None, "openai", "ollama"} : call_accessor(name, id)

SpecShapes == Init /\ [][NextShapes]_vars

\* ------------------------------------------------------- tui.py: run_tui
\* one step of the interactive loop
TuiStep ==
  /\ steps < MaxOps
  /\ steps' = steps + 1
  /\ save.pc = "idle"
  /\ UNCHANGED <<save, observed, repo>>

SettingsChoices == {"provider", "model", "temperature", "back"}

\* the providers offered by "Change provider"
SettingsProviders == {"openai", "ollama"}

\* the answer to "Temperature (0.0-2.0)": a number, or text float() rejects
TemperatureAnswers ==
  {[valid |-> FALSE, value |-> 0],
   [valid |-> TRUE, value |-> MaxTemperature - TempOver],
   [valid |-> TRUE, value |-> MaxTemperature + TempOver]}

\* what ends a prompt of setup_provider early: nothing, Ctrl-D or Ctrl-C
Interrupts == {None, "EOFError", "KeyboardInterrupt"}

SetupFailed(c, saved, raised) ==
  [config |-> c, saved |-> saved, raised |-> raised, result |-> FALSE, model |-> ""]

\* Config.setup_provider on a record of any shape, with the interrupt (if
\* any) arriving at its first prompt
tui_setup_provider(c, p, use_existing, api_key, model, interrupt) ==
  LET first == IF p = "ollama"
               THEN accessor_raises(c, "config.get_model", p)
               ELSE accessor_raises(c, "config.get_api_key", p)
  IN IF first # None THEN SetupFailed(c, FALSE, first)
     ELSE IF interrupt # None THEN SetupFailed(c, FALSE, interrupt)
     ELSE IF /\ p # "ollama"
             /\ ~(Truthy(get_api_key(c, p)) /\ lower(use_existing) = "y")
             /\ api_key # ""
             /\ accessor_raises(c, "config.get_model", p) # None
     THEN SetupFailed([c EXCEPT !.api_keys = DictSet(@, p, api_key)], TRUE, "KeyError")
     ELSE config_setup_provider(c, p, use_existing, api_key, model)

\* action_settings: the record it leaves, whether a setter saved it, the
\* exception that escapes it, and the set_model call it made (id, name)
SettingsRun(c, saved, raised, id, model) ==
  [config |-> c, saved |-> saved, raised |-> raised, id |-> id, model |-> model]

action_settings(c, choice, selected, use_existing, api_key, model, temp, interrupt) ==
  LET p == DictGet(c, "provider", None)
      shown == IF ~Truthy(p) THEN None
               ELSE IF accessor_raises(c, "config.get_model", p) # None THEN "KeyError"
               ELSE accessor_raises(c, "config.get_temperature", None)
      setup == tui_setup_provider(c, selected, use_existing, api_key, model, interrupt)
      name == IF model # "" THEN model ELSE IF Truthy(p) THEN get_model(c, p) ELSE ""
  IN IF shown # None THEN SettingsRun(c, FALSE, shown, None, "")
     ELSE IF choice = "provider"
     THEN SettingsRun(setup.config, setup.saved, setup.raised, selected, setup.model)
     ELSE IF choice = "model"
     THEN IF name # "" /\ Truthy(p)
          THEN SettingsRun([c EXCEPT !.settings.model = DictSet(@, p, name)],
                           TRUE, None, p, name)
          ELSE SettingsRun(c, FALSE, None, None, "")
     ELSE IF choice = "temperature"
     THEN IF accessor_raises(c, "config.get_temperature", None) # None
          THEN SettingsRun(c, FALSE, "KeyError", None, "")
          ELSE IF ~temp.valid THEN SettingsRun(c, FALSE, None, None, "")
          ELSE SettingsRun([c EXCEPT !.settings.temperature = clamp_temperature(temp.value)],
                           TRUE, None, None, "")
     ELSE SettingsRun(c, FALSE, None, None, "")

\* the effect of one action_settings run on the store
apply_settings(r, op) ==
  /\ IF r.saved
     THEN Store(r.config, op)
     ELSE /\ last' = op
          /\ UNCHANGED <<config, file, fileMode>>
  /\ set_model_calls' = IF r.model # ""
                        THEN DictSet(set_model_calls, r.id, r.model)
                        ELSE set_model_calls

\* run_tui up to the first menu: with no provider selected, action_settings
\* runs before the loop, outside any try
run_tui(choice, selected, use_existing, api_key, model, temp, interrupt) ==
  LET r == IF Truthy(DictGet(config, "provider", None))
           THEN SettingsRun(config, FALSE, None, None, "")
           ELSE action_settings(config, choice, selected, use_existing, api_key,
                                model, temp, interrupt)
  IN /\ TuiStep
     /\ Running
     /\ tui.pc = "off"
     /\ apply_settings(r, Op("run_tui", r.id, choice, 0, r.raised, FALSE))
     /\ tui' = [pc |-> IF r.raised = None THEN "menu" ELSE "crashed",
                error_line |-> FALSE]
     /\ proc' = IF r.raised = None THEN proc ELSE "crashed"
     /\ UNCHANGED <<outcome, commits, writable, generator, provider, constructed,
                    requests, loaded_models>>

\* the menu entry "settings": action_map[idx]() inside the loop's try
menu_settings(choice, selected, use_existing, api_key, model, temp, interrupt) ==
  LET r == action_settings(config, choice, selected, use_existing, api_key,
                           model, temp, interrupt)
  IN /\ TuiStep
     /\ Running
     /\ tui.pc = "menu"
     /\ apply_settings(r, Op("action_settings", r.id, choice, 0, r.raised, FALSE))
     /\ tui' = [pc |-> "menu",
                error_line |-> r.raised \notin {None, "KeyboardInterrupt"}]
     /\ UNCHANGED <<outcome, commits, writable, proc, generator, provider,
                    constructed, requests, loaded_models>>

\* the menu entries "commit" and "quick commit": ai(prompt_key, diff) raises
\* (see tui_ai), the action prints "AI error: ..." and returns before its
\* Commit / Commit? prompt, whatever the user meant to answer there
menu_commit(entry, prompt_key, diff, answer) ==
  LET r == get_provider(config, None)
  IN /\ TuiStep
     /\ Running
     /\ tui.pc = "menu"
     /\ "generate" \notin ProviderMethods
     /\ provider' = r.provider
     /\ constructed' = IF r.raised = None THEN constructed + 1 ELSE constructed
     /\ last' = Op(entry, None, prompt_key, 0,
                   IF r.raised # None THEN r.raised ELSE "AttributeError", FALSE)
     /\ outcome' = NoOutcome
     /\ tui' = [pc |-> "menu", error_line |-> TRUE]
     /\ UNCHANGED <<config, file, fileMode, writable, proc, generator, requests,
                    set_model_calls, loaded_models, commits>>

\* q, quit, exit or 0 at the menu prompt, or end of input there
menu_quit ==
  /\ TuiStep
  /\ Running
  /\ tui.pc = "menu"
  /\ tui' = [pc |-> "ended", error_line |-> FALSE]
  /\ proc' = "exited"
  /\ last' = Op("quit", None, "", 0, None, FALSE)
  /\ UNCHANGED <<outcome, commits, config, file, fileMode, writable, generator,
                 provider, constructed, requests, set_model_calls, loaded_models>>

TuiOps == {"run_tui", "action_settings", "action_commit", "action_quick_commit"}

NextTui ==
  \/ import_config
  \/ \E doc \in HandWrittenDocs : EnvWriteFile(doc)
  \/ \E choice \in SettingsChoices, selected \in SettingsProviders,
        use_existing \in {"y", "n"}, k \in Secrets, m \in SetupModels,
        temp \in TemperatureAnswers, interrupt \in Interrupts :
       \/ run_tui(choice, selected, use_existing, k, m, temp, interrupt)
       \/ menu_settings(choice, selected, use_existing, k, m, temp, interrupt)
  \/ \E d \in Diffs, answer \in {"commit", "edit", "regenerate", "cancel"} :
       menu_commit("action_commit", "commit", d, answer)
  \/ \E d \in Diffs, answer \in {"yes", "no"} :
       menu_commit("action_quick_commit", "commit_conventional", d, answer)
  \/ menu_quit

SpecTui == Init /\ [][NextTui]_vars

\* ------------------------------------ generate_message.py: creativity control
\* MessageGenerator.temperature_increment, 0.1
TemperatureIncrement == 1

\* generator.increase_temperature(); last.t keeps the value before the call
increase_temperature ==
  LET current == PyMin(generator.current_temperature + TemperatureIncrement,
                       MaxTemperature)
  IN /\ Step
     /\ Running
     /\ generator' = [generator EXCEPT !.current_temperature = current]
     /\ Store([config EXCEPT !.settings.temperature = clamp_temperature(current)],
              Op("increase_temperature", None, "", generator.current_temperature,
                 None, FALSE))
     /\ UNCHANGED <<outcome, commits, writable, proc, provider, constructed, requests,
                    set_model_calls, loaded_models>>

\* generator.reset_temperature()
reset_temperature ==
  LET current == generator.base_temperature
  IN /\ Step
     /\ Running
     /\ generator' = [generator EXCEPT !.current_temperature = current]
     /\ Store([config EXCEPT !.settings.temperature = clamp_temperature(current)],
              Op("reset_temperature", None, "", generator.current_temperature,
                 None, FALSE))
     /\ UNCHANGED <<outcome, commits, writable, proc, provider, constructed, requests,
                    set_model_calls, loaded_models>>

NextCreativity ==
  \/ Start
  \/ \E t \in FileTemperatures : EnvEditTemperature(t)
  \/ \E t \in TempInputs : set_temperature(t)
  \/ increase_temperature
  \/ reset_temperature
  \/ EnvSetWritable

SpecCreativity == Init /\ [][NextCreativity]_vars

\* ------------------------------------- committing a generated message
NextCommit ==
  \/ Start
  \/ \E p \in valid_providers : set_provider(p)
  \/ \E d \in Diffs \cup {""}, conventional \in BOOLEAN,
        approve \in {"auto", "yes", "no"}, reply \in Replies :
       cli_commit(d, FALSE, DefaultTemperature, conventional, approve, reply)
  \/ \E choice \in {"provider", "back"}, temp \in TemperatureAnswers :
       run_tui(choice, "ollama", "n", "", "", temp, None)
  \/ \E d \in Diffs, answer \in {"commit", "edit", "regenerate", "cancel"} :
       menu_commit("action_commit", "commit", d, answer)
  \/ \E d \in Diffs, answer \in {"yes", "no"} :
       menu_commit("action_quick_commit", "commit_conventional", d, answer)
  \/ menu_quit

SpecCommit == Init /\ [][NextCommit]_vars

\* ------------------------------------------------- cli.py: clean-branches
\* local branch names; a remote branch name is the sequence of its
\* /-separated parts, listed by `git branch -r` behind "origin/"
Branches == {"main", "master", "feature"}

RemoteNames == {<<"main">>, <<"master">>, <<"feature">>, <<"origin", "master">>}

\* the repositories the command may find: the current branch is a local
\* branch, the main branch (if any) is merged into itself
main_branch_of(branches) ==
  IF "main" \in branches THEN "main"
  ELSE IF "master" \in branches THEN "master"
  ELSE None

Repos ==
  {r \in [current : Branches, branches : SUBSET Branches, merged : SUBSET Branches,
          remote : SUBSET RemoteNames, remote_merged : SUBSET RemoteNames,
          checkouts : {0}, pulls : {0}, deleted : {{}}, deleted_remote : {{}}] :
     /\ r.current \in r.branches
     /\ r.merged \subseteq r.branches
     /\ main_branch_of(r.branches) # None => main_branch_of(r.branches) \in r.merged
     /\ r.remote_merged \subseteq r.remote}

\* one whole operation on the repository
RepoStep ==
  /\ steps < MaxOps
  /\ steps' = steps + 1
  /\ save.pc = "idle"
  /\ UNCHANGED <<save, observed, tui>>

\* the user's own git work, before the command is first run, leaves the
\* repository in some state
EnvRepo(r) ==
  /\ RepoStep
  /\ repo = NoRepo
  /\ repo # r
  /\ repo' = r
  /\ last' = Op("env", None, "", 0, None, FALSE)
  /\ UNCHANGED <<config, file, fileMode, writable, proc, generator, provider,
                 constructed, requests, set_model_calls, loaded_models, outcome,
                 commits>>

\* the names read from `git branch --merged <main>`: "* " is stripped, the
\* main branch and master are left out
merged_branches(merged, main_branch) == merged \ {main_branch, "master"}

\* branch.replace('origin/', ''): every "origin/" part is removed
replace_origin(name) == SelectSeq(name, LAMBDA part : part # "origin")

\* branch.endswith('origin/<main>') for the listed line "origin/" + name
ends_with_origin_main(name, main_branch) ==
  \/ name = <<main_branch>>
  \/ /\ Len(name) >= 2
     /\ name[Len(name) - 1] = "origin"
     /\ name[Len(name)] = main_branch

\* the names read from `git branch -r --merged origin/<main>`
remote_branches(remote_merged, main_branch) ==
  {replace_origin(name) :
     name \in {n \in remote_merged :
                 /\ ~ends_with_origin_main(n, main_branch)
                 /\ replace_origin(n) \notin {<<main_branch>>, <<"master">>}}}

\* mutant: --force deletes even in a dry run
deletes_when_forced(dry_run, force, answer) == force \/ (~dry_run /\ answer)

\* whether the listed branches are deleted: never in a dry run, otherwise
\* with --force or after a yes to the confirmation
deletes(dry_run, force, answer) == ~dry_run /\ (force \/ answer)

CleanFlags(remote, force) ==
  IF remote /\ force THEN "remote force"
  ELSE IF remote THEN "remote"
  ELSE IF force THEN "force"
  ELSE ""

\* `clean-branches [--remote] [--force] [--dry-run] [--generate-alias]`;
\* switch, delete_local and delete_remote are the answers to its
\* confirmations, checkout_ok whether `git checkout <main>` succeeds
clean_branches(remote, force, dry_run, generate_alias, switch, delete_local, delete_remote, checkout_ok) ==
  LET main_branch == main_branch_of(repo.branches)
      must_switch == repo.current # main_branch
      aborted == must_switch /\ ~force /\ ~dry_run /\ ~switch
      checkout == must_switch /\ ~dry_run /\ ~aborted
      failed == checkout /\ ~checkout_ok
      local == IF deletes(dry_run, force, delete_local)
               THEN merged_branches(repo.merged, main_branch) ELSE {}
      pushed == IF remote /\ deletes(dry_run, force, delete_remote)
                THEN remote_branches(repo.remote_merged, main_branch) ELSE {}
      raised == IF main_branch = None \/ failed THEN "SystemExit" ELSE None
  IN /\ RepoStep
     /\ Running
     /\ proc' = "exited"
     /\ last' = Op("clean-branches", IF dry_run THEN "dry-run" ELSE "run",
                   CleanFlags(remote, force), 0, raised, FALSE)
     /\ IF main_branch = None \/ aborted \/ failed
        THEN repo' = [repo EXCEPT !.checkouts = 0, !.pulls = 0,
                                  !.deleted = {}, !.deleted_remote = {}]
        ELSE repo' = [current |-> IF checkout THEN main_branch ELSE repo.current,
                      branches |-> repo.branches \ local,
                      merged |-> repo.merged \ local,
                      remote |-> repo.remote \ pushed,
                      remote_merged |-> repo.remote_merged \ pushed,
                      checkouts |-> IF checkout THEN 1 ELSE 0,
                      pulls |-> IF dry_run THEN 0 ELSE 1,
                      deleted |-> local,
                      deleted_remote |-> pushed]
     /\ UNCHANGED <<config, file, fileMode, writable, generator, provider,
                    constructed, requests, set_model_calls, loaded_models, outcome,
                    commits>>

NextClean ==
  \/ Start
  \/ \E r \in Repos : EnvRepo(r)
  \/ \E remote \in BOOLEAN, force \in BOOLEAN, dry_run \in BOOLEAN,
        generate_alias \in BOOLEAN, switch \in BOOLEAN, delete_local \in BOOLEAN,
        delete_remote \in BOOLEAN, checkout_ok \in BOOLEAN :
       clean_branches(remote, force, dry_run, generate_alias, switch, delete_local,
                      delete_remote, checkout_ok)

SpecClean == Init /\ [][NextClean]_vars

\* the generation callers: MessageGenerator, the CLI commit command, the TUI
NextGen ==
  \/ Start
  \/ \E p \in valid_providers : set_provider(p)
  \/ \E id \in RemoteProviders : set_api_key(id, "sk-test")
  \/ \E t \in TempInputs : set_temperature(t)
  \/ \E d \in Diffs, reply \in Replies : generate_message(d, reply)
  \/ \E k \in PromptKeys, d \in Diffs : tui_ai(k, d)
  \/ \E d \in Diffs \cup {""}, has_t \in BOOLEAN, conventional \in BOOLEAN,
        approve \in {"auto", "yes", "no"}, reply \in Replies :
       \E t \in (IF has_t THEN TempInputs ELSE {DefaultTemperature}) :
         cli_commit(d, has_t, t, conventional, approve, reply)

SpecGen == Init /\ [][NextGen]_vars

\* ---------------------------------------------------------------- claims
KnownIds == {"openai", "gemini", "claude", "ollama"}

RemoteIds == {"openai", "gemini", "claude"}

Setters == {"set_provider", "set_api_key", "set_model", "set_temperature"}

clamp(t, lo, hi) == IF t < lo THEN lo ELSE IF t > hi THEN hi ELSE t

BuiltinModel ==
  [openai |-> "gpt-3.5-turbo", gemini |-> "gemini-pro",
   claude |-> "claude-3-haiku-20240307", ollama |-> "llama3.2"]

ProviderClass ==
  [openai |-> "OpenAIProvider", gemini |-> "GeminiProvider",
   claude |-> "ClaudeProvider", ollama |-> "OllamaProvider"]

MissingCredential == {OpenAIKeyMissing, GeminiKeyMissing, ClaudeKeyMissing}

\* the identifier the last resolver call resolved
ResolvedId == IF last.id = None THEN config_get_provider(config) ELSE last.id

\* C1: after set_temperature(t), for t below, inside or above [0.0, 2.0],
\* get_temperature() is clamp(t, 0.0, 2.0) and the call raised nothing.
C1_SetTemperatureClamps ==
  last.op = "set_temperature" =>
    /\ last.raised = None
    /\ get_temperature(config) = clamp(last.t, 0, 20)

C1_Witness ==
  /\ last.op = "set_temperature"
  /\ last.t > 20
  /\ get_temperature(config) = 20

\* C2: set_provider(id) with id outside the four known identifiers raises
\* ValueError, leaves get_provider() as it was and does not rewrite the file.
C2_InvalidProviderRejected ==
  [][(last'.op = "set_provider" /\ last'.id \notin KnownIds /\ steps' # steps) =>
       /\ last'.raised = "ValueError"
       /\ config_get_provider(config') = config_get_provider(config)
       /\ file' = file
       /\ fileMode' = fileMode]_vars

C2_Witness ==
  /\ last.op = "set_provider"
  /\ last.id \notin KnownIds
  /\ last.raised = "ValueError"
  /\ config_get_provider(config) \in KnownIds
  /\ file.kind = "json"

\* C3 as stated: for a remote identifier, is_configured(id) is true exactly
\* when a credential is stored for id.
C3_ConfiguredIffKeyStored ==
  \A id \in RemoteIds : is_configured(config, id) <=> id \in DOMAIN config.api_keys

\* C3 amended: for a remote identifier, is_configured(id) is true exactly when
\* a non-empty credential is stored for id; it is true right after
\* set_api_key(id, secret) with a non-empty secret.
C3_ConfiguredIffNonEmptyKey ==
  /\ \A id \in RemoteIds :
       is_configured(config, id) <=>
         (id \in DOMAIN config.api_keys /\ config.api_keys[id] \notin {"", None})
  /\ (last.op = "set_api_key" /\ last.id \in RemoteIds /\ last.val # "") =>
       is_configured(config, last.id)

C3_Witness ==
  /\ last.op = "set_api_key"
  /\ last.id = "claude"
  /\ last.val = "sk-test"
  /\ is_configured(config, "claude")
  /\ ~is_configured(config, "openai")

\* C4: is_configured("ollama") is true in every reachable Settings state.
C4_LocalAlwaysConfigured == is_configured(config, "ollama")

C4_Witness ==
  /\ config_get_provider(config) = "openai"
  /\ "ollama" \notin DOMAIN config.api_keys
  /\ "openai" \in DOMAIN config.api_keys
  /\ is_configured(config, "ollama")

\* C5: after a setter saved the record, loading the file yields a record equal
\* field for field to the one saved.
C5_SaveLoadRoundTrip ==
  (last.op \in Setters /\ last.raised = None /\ ~last.warning) =>
    /\ load_config(file).raised = None
    /\ load_config(file).config = config

C5_Witness ==
  /\ last.op \in Setters
  /\ last.raised = None
  /\ ~last.warning
  /\ config_get_provider(config) # None
  /\ DOMAIN config.api_keys # {}
  /\ load_config(file).config = config

\* C6: starting on a missing file or on a file that fails to parse yields the
\* default record (no provider, no credentials, built-in models, temperature
\* 0.7) and raises nothing.
C6_LoadFallsBackToDefault ==
  (last.op = "start" /\ file.kind # "json") =>
    /\ last.raised = None
    /\ proc = "running"
    /\ config_get_provider(config) = None
    /\ DOMAIN config.api_keys = {}
    /\ \A id \in KnownIds : get_model(config, id) = BuiltinModel[id]
    /\ get_temperature(config) = 7

\* C7: get_model(id) is the built-in default while no model was set for id,
\* and the name of the last set_model(id, name) afterwards, whatever other
\* setters ran in between.
C7_GetModel ==
  proc = "running" =>
    \A id \in KnownIds :
      /\ id \in DOMAIN set_model_calls => get_model(config, id) = set_model_calls[id]
      /\ (id \notin DOMAIN set_model_calls /\ id \notin loaded_models) =>
           get_model(config, id) = BuiltinModel[id]

C7_Witness ==
  /\ proc = "running"
  /\ last.op \in {"set_api_key", "set_temperature", "set_provider"}
  /\ "openai" \in DOMAIN set_model_calls
  /\ get_model(config, "openai") = "gpt-4"
  /\ get_model(config, "claude") = "claude-3-haiku-20240307"

\* C8: a resolver call without an explicit identifier while no provider is
\* selected raises the not-configured error, constructs no Provider and
\* sends no backend request.
C8_NotConfigured ==
  [][(/\ last'.op \in {"get_provider", "generate_message"}
      /\ last'.id = None
      /\ steps' # steps
      /\ config_get_provider(config) = None) =>
       /\ last'.raised = NoProviderConfigured
       /\ provider' = NoProvider
       /\ constructed' = constructed
       /\ requests' = requests]_vars

C8_Witness ==
  /\ last.op = "get_provider"
  /\ last.id = None
  /\ config_get_provider(config) = None
  /\ file.kind = "missing"
  /\ last.raised = NoProviderConfigured

\* C9: for a known identifier, given explicitly or taken from the selected
\* provider, the resolver returns a Provider exactly when is_configured(id):
\* a remote identifier without a credential raises the missing-credential
\* error, and ollama resolves with no credential stored.
C9_ResolvesIffConfigured ==
  (last.op = "get_provider" /\ ResolvedId \in KnownIds) =>
    /\ (last.raised = None) <=> is_configured(config, ResolvedId)
    /\ last.raised = None => provider.class = ProviderClass[ResolvedId]
    /\ last.raised # None => (ResolvedId \in RemoteIds /\ last.raised \in MissingCredential)
    /\ ResolvedId = "ollama" => last.raised = None

C9_Witness ==
  /\ last.op = "get_provider"
  /\ last.id = None
  /\ ResolvedId = "ollama"
  /\ DOMAIN config.api_keys = {}
  /\ last.raised = None
  /\ provider.class = "OllamaProvider"

\* C10: a Provider returned by the resolver for id carries get_model(id),
\* get_temperature() and, for a remote id, get_api_key(id).
C10_ProviderCarriesSettings ==
  (last.op = "get_provider" /\ last.raised = None) =>
    /\ provider.model = get_model(config, ResolvedId)
    /\ provider.temperature = get_temperature(config)
    /\ ResolvedId \in RemoteIds => provider.api_key = get_api_key(config, ResolvedId)

C10_Witness ==
  /\ last.op = "get_provider"
  /\ last.raised = None
  /\ last.id = None
  /\ ResolvedId = "openai"
  /\ provider.model = "gpt-3.5-turbo"
  /\ provider.api_key = "sk-test"
  /\ provider.temperature = get_temperature(config)

GenerationOps == {"generate_message", "commit"}

\* the last operation sent a request to a backend
RequestSent == last.op \in GenerationOps /\ outcome.reply.kind # "none"

BackendErrorName ==
  [OpenAIProvider |-> "OpenAI API error", GeminiProvider |-> "Gemini API error",
   ClaudeProvider |-> "Claude API error", OllamaProvider |-> "Ollama error"]

\* C11: a generation request carries the Settings temperature as it is when
\* the request starts, so a set_temperature(t) completed before it takes
\* effect, also when the MessageGenerator was constructed before the change.
C11_TemperatureTakesEffect ==
  RequestSent =>
    requests[Len(requests)].temperature = get_temperature(config)

\* C12: for every key and every resolved provider, ai(key, content) issues
\* exactly one backend request, with the table entry for key as instruction
\* and the given content, and returns the generated text.
C12_AiIssuesOneRequest ==
  [][(/\ last'.op = "ai"
      /\ steps' # steps
      /\ get_provider(config, None).raised = None) =>
       /\ last'.raised = None
       /\ Len(requests') = Len(requests) + 1
       /\ requests'[Len(requests')].system = DictGet(PROMPTS, last'.val, "")
       /\ requests'[Len(requests')].content \in Diffs]_vars

\* C13: a generation call returns normally only when the backend answered
\* with a 2xx status and a text; what it returns is non-empty trimmed text.
C13_FailuresNeverReturn ==
  (RequestSent /\ last.raised = None) =>
    /\ outcome.reply.kind = "text"
    /\ outcome.reply.status \in 200..299
    /\ outcome.text # <<>>
    /\ Head(outcome.text) \notin Whitespace
    /\ outcome.text[Len(outcome.text)] \notin Whitespace

C15_FileOwnerOnly == file.kind = "json" => fileMode = 384

\* C16: a load in another process that interleaves with a save observes the
\* complete previous record or the complete new record.
C16_SaveAtomicForLoad ==
  observed.loaded => observed.config \in {observed.before, observed.after}

\* C17: after a setter returned and its write succeeded, the settings file
\* holds the full in-memory record.
C17_PersistedEqualsMemory ==
  (last.op \in Setters /\ last.raised = None /\ ~last.warning) =>
    /\ file.kind = "json"
    /\ file.doc = json_dump(config)

C17_Witness ==
  /\ last.op = "set_model"
  /\ last.raised = None
  /\ ~last.warning
  /\ DOMAIN config.api_keys # {}
  /\ file.kind = "json"
  /\ file.doc.api_keys = [k \in DOMAIN config.api_keys |-> JsonString(config.api_keys[k])]

C19_UnknownSetupChangesNothing ==
  [][(/\ last'.op = "setup_provider"
      /\ steps' # steps
      /\ last'.id \notin KnownIds) =>
       /\ config'.api_keys = config.api_keys
       /\ config'.settings.model = config.settings.model
       /\ config'.provider = config.provider
       /\ file' = file]_vars

\* C20: starting from a load of any well-formed settings file, after any
\* setter has stored the record the stored temperature lies in [0.0, 2.0].
C20_TemperatureInRangeAfterSetter ==
  (last.op \in Setters /\ last.raised = None) =>
    /\ get_temperature(config) >= MinTemperature
    /\ get_temperature(config) <= MaxTemperature

\* C21: in every reachable Settings state, also after loading an existing
\* settings file, the selected provider is unset or one of the four known
\* identifiers, so the resolver called without an identifier never reaches
\* its unknown-provider branch.
C21_SelectedProviderKnown ==
  /\ Running => config_get_provider(config) \in KnownIds \cup {None}
  /\ (last.op = "get_provider" /\ last.id = None) => last.raised # UnknownProvider

C27_AccessorsTotalAfterLoad ==
  last.op \in Accessors => last.raised = None

\* C23: in the TUI every error raised by a settings, resolver or generation
\* step, in a menu action or in the first-run settings step, is shown as an
\* error line and the menu is shown again; only quitting, end of input or an
\* interrupt ends the loop.
C23_TuiErrorsShownNotFatal ==
  (last.op \in TuiOps /\ last.raised \notin Interrupts) =>
    /\ tui.pc = "menu"
    /\ proc = "running"
    /\ last.raised # None => tui.error_line

\* C24: when the CLI commit command runs with --conventional, the request
\* sent for that commit message carries the Conventional Commits instruction
\* and not the default instruction.
C24_ConventionalInstructionSent ==
  (/\ last.op = "commit"
   /\ last.id = "conventional"
   /\ outcome.reply.kind # "none") =>
    requests[Len(requests)].system = ConventionalPrompt

\* C25: after increase_temperature or reset_temperature the generator's
\* current temperature lies between its base temperature and 2.0, an
\* increase raised it by 0.1 capped at 2.0, the Settings temperature equals
\* it, and after a reset both equal the base value read at construction.
C25_CreativityControl ==
  last.op \in {"increase_temperature", "reset_temperature"} =>
    /\ generator.current_temperature >= generator.base_temperature
    /\ generator.current_temperature <= MaxTemperature
    /\ get_temperature(config) = generator.current_temperature
    /\ last.op = "increase_temperature" =>
         generator.current_temperature =
           clamp(last.t + TemperatureIncrement, last.t, MaxTemperature)
    /\ last.op = "reset_temperature" =>
         generator.current_temperature = generator.base_temperature

\* C26: a dry run of clean-branches performs no checkout, no pull and no
\* local or remote branch deletion, whatever the other flags and the
\* repository; and no run deletes the main branch or master, locally or
\* remotely.
C26_DryRunChangesNothing ==
  [][(last'.op = "clean-branches" /\ steps' # steps) =>
       /\ last'.id = "dry-run" =>
            /\ repo'.checkouts = 0
            /\ repo'.pulls = 0
            /\ repo'.deleted = {}
            /\ repo'.deleted_remote = {}
            /\ repo'.current = repo.current
            /\ repo'.branches = repo.branches
            /\ repo'.remote = repo.remote
       /\ repo'.deleted \cap {main_branch_of(repo.branches), "master"} = {}
       /\ repo'.deleted_remote \cap {<<main_branch_of(repo.branches)>>, <<"master">>} = {}
       /\ repo.branches \cap {"main", "master"} \subseteq repo'.branches]_vars

C26_Witness ==
  /\ last.op = "clean-branches"
  /\ last.id = "dry-run"
  /\ last.val = "remote force"
  /\ last.raised = None
  /\ repo.current = "feature"
  /\ {"feature", "master"} \subseteq repo.merged
  /\ {<<"feature">>, <<"origin", "master">>} \subseteq repo.remote_merged

\* C28: for a known identifier and any answers, when setup_provider(id)
\* returned True the selected provider is id and id is configured; when it
\* returned False the selected provider, the credentials and the models are
\* as before the call.
C28_SetupPostcondition ==
  [][(/\ last'.op = "setup_provider"
      /\ steps' # steps
      /\ last'.id \in KnownIds
      /\ last'.raised = None) =>
       /\ last'.t = 0 =>
            /\ config_get_provider(config') = last'.id
            /\ is_configured(config', last'.id)
       /\ last'.t = 1 =>
            /\ config'.provider = config.provider
            /\ config'.api_keys = config.api_keys
            /\ config'.settings.model = config.settings.model]_vars

C28_Witness ==
  /\ last.op = "setup_provider"
  /\ last.id = "openai"
  /\ last.t = 0
  /\ last.val = "sk-test"
  /\ config_get_provider(config) = "openai"
  /\ get_api_key(config, "openai") = "sk-test"
  /\ is_configured(config, "openai")

Others(d, id) == [k \in DOMAIN d \ {id} |-> d[k]]

OnlyEntryChanged(before, after, op, id) ==
  /\ after.provider = before.provider
  /\ after.settings.temperature = before.settings.temperature
  /\ after.settings.max_tokens = before.settings.max_tokens
  /\ Others(after.api_keys, IF op = "set_api_key" THEN id ELSE None)
       = Others(before.api_keys, IF op = "set_api_key" THEN id ELSE None)
  /\ Others(after.settings.model, IF op = "set_model" THEN id ELSE None)
       = Others(before.settings.model, IF op = "set_model" THEN id ELSE None)

====
